---- MODULE Spec2Model ----
(***************************************************************************)
(* A model of backend/voice-detector/eval.py: load_sample (telephony       *)
(* degradation, voiced-interval detection, fixed-length chunking), the     *)
(* per-chunk scoring loop and the aggregation into an alert band.          *)
(*                                                                         *)
(* Arrays of samples are kept symbolically: an array is zeros(padL) ++     *)
(* y[lo .. hi) ++ zeros(padR), where y is the degraded signal.  A sample   *)
(* is therefore named by its index in y, and the sample counts of the      *)
(* program (60000, 3600, 512) keep their values.                           *)
(*                                                                         *)
(* Scores are binary floating-point numbers.  The model keeps IEEE-754     *)
(* round-to-nearest-even and narrows the format: a number is an integer    *)
(* count of 1/64, numbers below 1.0 are spaced 1/64 apart, and the spacing *)
(* doubles with every power of two from 1.0 on (6 significant bits, where  *)
(* float64 has 53).  0.85 and 0.95 are, as in float64, the representable   *)
(* numbers nearest to them: 54/64 and 61/64.                               *)
(***************************************************************************)
EXTENDS Integers, Sequences, FiniteSets

\* ------------------------------------------------------------- bounds
\* Longest input, in whole chunks of audio.
MaxSignalChunks == 2
\* Most intervals librosa.effects.split returns for one signal.
MaxIntervals == 2
\* Longest score list handed to the aggregation on its own.
MaxScores == 3

\* ---------------------------------------------------------- constants
TARGET_SR == 24000
TELEPHONY_SR == 8000
HOP_LENGTH == 512
\* int(0.15 * TARGET_SR)
MIN_SEGMENT_SAMPLES == 3600
\* int(2.5 * TARGET_SR)
CHUNK_SAMPLES == 60000
\* 1.0, in units of 1/64
One == 2 ^ 6
\* 0.85 -> 54/64
CAUTION_THRESHOLD == 54
\* 0.95 -> 61/64
HIGH_THRESHOLD == 61
BINARY_HIGH_THRESHOLD == 61
\* the literal 0.5 of the ratio test
HalfRatio == One \div 2

Min(a, b) == IF a <= b THEN a ELSE b
Max(a, b) == IF a >= b THEN a ELSE b
CeilDiv(a, b) == (a + b - 1) \div b

\* Python's None and a present value.
None == << >>
Some(v) == << v >>

\* ------------------------------------------------- floating point
RECURSIVE Quantum(_)
\* The spacing of the representable numbers around x (x >= 0, in 1/64).
Quantum(x) == IF x < One THEN 1 ELSE 2 * Quantum(x \div 2)

\* num/den rounded to a multiple of q, ties to the even multiple.
RoundHalfEven(num, den, q) ==
    LET d == den * q
        lo == num \div d
        r2 == 2 * (num % d)
    IN  q * (IF r2 < d THEN lo
             ELSE IF r2 > d THEN lo + 1
             ELSE IF lo % 2 = 0 THEN lo ELSE lo + 1)

\* The representable number nearest to num/den.
FRound(num, den) == RoundHalfEven(num, den, Quantum(num \div den))

fadd(a, b) == FRound(a + b, 1)
fdiv(a, n) == FRound(a, n)

\* ------------------------------------------------------ sample arrays
\* zeros(padL) ++ y[lo .. hi) ++ zeros(padR)
Arr(lo, hi, padL, padR) == [lo |-> lo, hi |-> hi, padL |-> padL, padR |-> padR]
ALen(x) == x.padL + (x.hi - x.lo) + x.padR

\* The sample at position i (from 0): Some(index in y), or None for a zero of padding.
At(x, i) ==
    IF i < x.padL THEN None
    ELSE IF i < x.padL + (x.hi - x.lo) THEN Some(x.lo + (i - x.padL))
    ELSE None

\* Python's x[a:b] for 0 <= a, 0 <= b: both ends are clamped to the length.
Slice(x, a, b) ==
    LET n == ALen(x)
        s == Min(a, n)
        e == Max(s, Min(b, n))
        d == x.hi - x.lo
        ds == Min(Max(s - x.padL, 0), d)
        de == Min(Max(e - x.padL, 0), d)
    IN  Arr(x.lo + ds, x.lo + de,
            Min(e, x.padL) - Min(s, x.padL),
            Max(e - x.padL - d, 0) - Max(s - x.padL - d, 0))

\* np.pad(x, (before, after), mode='constant')
NpPad(x, before, after) == [x EXCEPT !.padL = @ + before, !.padR = @ + after]

\* Mutant: the zeros are put before the samples.
pad_to_length_left(x, target_len) ==
    LET x_len == ALen(x)
    IN  IF x_len >= target_len
        THEN Slice(x, 0, target_len)
        ELSE NpPad(x, target_len - x_len, 0)

pad_to_length(x, target_len) ==
    LET x_len == ALen(x)
    IN  IF x_len >= target_len
        THEN Slice(x, 0, target_len)
        ELSE NpPad(x, 0, target_len - x_len)

\* ------------------------------------------------- channel simulation
\* librosa.resample: the output holds ceil(n * target_sr / orig_sr) samples.
ResampleLen(n, orig_sr, target_sr) == CeilDiv(n * target_sr, orig_sr)

\* The length of simulate_twilio_audio's result (mu-law encoding and decoding
\* are element-wise and keep the length).
simulate_twilio_audio(n, sr) ==
    LET n8 == IF sr # TELEPHONY_SR THEN ResampleLen(n, sr, TELEPHONY_SR) ELSE n
    IN  IF TELEPHONY_SR # TARGET_SR
        THEN ResampleLen(n8, TELEPHONY_SR, TARGET_SR)
        ELSE n8

\* ------------------------------------------------------- segmentation
\* Frame indices at which the model lets an interval start or end.
FrameIdx == {0, 1, 2, 3, 7, 8, 9}

\* One interval of librosa.effects.split on a signal of n samples: frame
\* boundaries (multiples of the hop) clipped to n, start before end; only an
\* interval of the last frame alone, when n is a multiple of the hop, is empty.
SplitPairs(n) ==
    LET starts == {HOP_LENGTH * f : f \in {g \in FrameIdx : HOP_LENGTH * g <= n}}
        ends == starts \cup {n}
    IN  {p \in starts \X ends : p[1] < p[2] \/ (p[1] = n /\ p[2] = n)}

\* The results of librosa.effects.split: disjoint intervals in time order,
\* separated by at least one silent frame.
SplitResults(n) ==
    {ivs \in UNION {[1..m -> SplitPairs(n)] : m \in 0..MaxIntervals} :
        \A i \in 1..(Len(ivs) - 1) : ivs[i][2] < ivs[i + 1][1]}

RECURSIVE voiced_loop_strict(_, _, _, _)
\* Mutant: an interval of exactly MIN_SEGMENT_SAMPLES samples is discarded.
voiced_loop_strict(y, intervals, i, segments) ==
    IF i > Len(intervals) THEN segments
    ELSE LET start == intervals[i][1]
             end == intervals[i][2]
         IN  voiced_loop_strict(y, intervals, i + 1,
                 IF end - start > MIN_SEGMENT_SAMPLES
                 THEN Append(segments, Slice(y, start, end))
                 ELSE segments)

RECURSIVE voiced_loop(_, _, _, _)
\* The loop of detect_voiced_intervals from interval i on.
voiced_loop(y, intervals, i, segments) ==
    IF i > Len(intervals) THEN segments
    ELSE LET start == intervals[i][1]
             end == intervals[i][2]
         IN  voiced_loop(y, intervals, i + 1,
                 IF end - start >= MIN_SEGMENT_SAMPLES
                 THEN Append(segments, Slice(y, start, end))
                 ELSE segments)

detect_voiced_intervals(y, intervals) == voiced_loop(y, intervals, 1, << >>)

\* ----------------------------------------------------------- chunking
RECURSIVE chunk_while_inclusive(_, _, _)
\* Mutant: the loop runs while offset <= len(segment) and does not stop at an
\* empty slice.
chunk_while_inclusive(segment, offset, chunks) ==
    IF ~(offset <= ALen(segment)) THEN chunks
    ELSE LET slice_end == offset + CHUNK_SAMPLES
             chunk == Slice(segment, offset, slice_end)
         IN  chunk_while_inclusive(segment, offset + CHUNK_SAMPLES,
                 Append(chunks, pad_to_length(chunk, CHUNK_SAMPLES)))

RECURSIVE chunk_while(_, _, _)
\* The while loop of chunk_segments over one segment.
chunk_while(segment, offset, chunks) ==
    IF ~(offset < ALen(segment)) THEN chunks
    ELSE LET slice_end == offset + CHUNK_SAMPLES
             chunk == Slice(segment, offset, slice_end)
         IN  IF ALen(chunk) = 0 THEN chunks
             ELSE chunk_while(segment, offset + CHUNK_SAMPLES,
                      Append(chunks, pad_to_length(chunk, CHUNK_SAMPLES)))

RECURSIVE chunk_for(_, _, _)
\* The for loop of chunk_segments from segment i on.
chunk_for(segments, i, chunks) ==
    IF i > Len(segments) THEN chunks
    ELSE chunk_for(segments, i + 1, chunk_while(segments[i], 0, chunks))

chunk_segments(segments) == chunk_for(segments, 1, << >>)

\* Mutant: no fallback chunk when no segment is voiced.
load_sample_no_fallback(y, intervals) ==
    chunk_segments(detect_voiced_intervals(y, intervals))

\* load_sample after librosa.load, given what librosa.effects.split returns.
load_sample(y, intervals) ==
    LET segments == detect_voiced_intervals(y, intervals)
    IN  IF segments = << >>
        THEN << pad_to_length(y, CHUNK_SAMPLES) >>
        ELSE chunk_segments(segments)

\* -------------------------------------------------------- classifier
\* What model(m_batch) and the two softmaxes give for one chunk: the fake and
\* the real probability and the 7-way distribution, each summing to 1.0.
ChunkScore(f) ==
    [fake |-> f, real |-> One - f,
     multi |-> << One - f, f \div 2, f - (f \div 2), 0, 0, 0, 0 >>]

\* Fake probabilities the classifier returns in a run of the program.
RunFakes == {20, CAUTION_THRESHOLD, HIGH_THRESHOLD}
ClassifierOutputs == {ChunkScore(f) : f \in RunFakes}

\* Fake probabilities of the score lists the aggregation is applied to.
AggFakes == {0, 26, 53, 54, 55, 60, 61, 62, 64}
AggScoreLists ==
    UNION {[1..m -> {ChunkScore(f) : f \in AggFakes}] : m \in 0..MaxScores}

\* -------------------------------------------------------- aggregation
\* A numpy result after .tolist(): a list, or the float nan.
NpList(items) == [kind |-> "list", items |-> items]
NpNan == [kind |-> "nan", items |-> << >>]

RECURSIVE add_reduce(_, _, _)
\* np.add.reduce along axis 0: the rows are added one after the other.
add_reduce(xs, i, acc) ==
    IF i > Len(xs) THEN acc ELSE add_reduce(xs, i + 1, fadd(acc, xs[i]))

\* np.average(rows, axis=0).tolist() for rows of `width` numbers: the column
\* sums divided by the row count; the mean of no rows is nan.
NpAverage(rows, width) ==
    IF Len(rows) = 0 THEN NpNan
    ELSE NpList([j \in 1..width |->
             fdiv(add_reduce([i \in 1..Len(rows) |-> rows[i][j]], 2, rows[1][j]),
                  Len(rows))])

\* bool(v): nan is not zero, so it is true; a list is true when not empty.
Truthy(v) == IF v.kind = "nan" THEN TRUE ELSE Len(v.items) > 0
\* v[i] raises TypeError on a float.
Subscriptable(v) == v.kind = "list"

\* The k-th smallest element of xs.
KthSmallest(xs, k) ==
    CHOOSE v \in {xs[i] : i \in 1..Len(xs)} :
        /\ Cardinality({i \in 1..Len(xs) : xs[i] < v}) < k
        /\ k <= Cardinality({i \in 1..Len(xs) : xs[i] <= v})

\* np.median of a list that is not empty: the mean of the middle elements.
NpMedian(xs) ==
    LET n == Len(xs)
    IN  IF n % 2 = 1 THEN KthSmallest(xs, (n + 1) \div 2)
        ELSE fdiv(fadd(KthSmallest(xs, n \div 2), KthSmallest(xs, n \div 2 + 1)), 2)

NpMax(xs) == CHOOSE v \in {xs[i] : i \in 1..Len(xs)} : \A i \in 1..Len(xs) : xs[i] <= v

\* Mutant: a score at the threshold is not counted.
HighChunkCountStrict(scores) ==
    Cardinality({i \in 1..Len(scores) : scores[i] > HIGH_THRESHOLD})

HighChunkCount(scores) ==
    Cardinality({i \in 1..Len(scores) : scores[i] >= HIGH_THRESHOLD})

\* high_chunk_count / chunk_count if chunk_count else 0
HighChunkRatio(high_chunk_count, chunk_count) ==
    IF chunk_count # 0 THEN fdiv(One * high_chunk_count, chunk_count) ELSE 0

\* round(high_chunk_ratio, 3), in thousandths.  The quotient is rounded from
\* its exact value: the 53 bits of a float64 quotient do not move its third
\* decimal, which the narrow format of this model would.
Round3(high_chunk_count, chunk_count) ==
    IF chunk_count # 0 THEN RoundHalfEven(1000 * high_chunk_count, chunk_count, 1) ELSE 0

\* Mutant: the comparisons of the "high" rule exclude the thresholds.
AlertBandStrict(chunk_count, median_fake, binary_average_fake, high_chunk_ratio) ==
    IF chunk_count > 0
    THEN IF /\ median_fake # None
            /\ median_fake[1] > HIGH_THRESHOLD
            /\ binary_average_fake > BINARY_HIGH_THRESHOLD
            /\ high_chunk_ratio >= HalfRatio
         THEN "high"
         ELSE IF \/ (median_fake # None /\ median_fake[1] >= CAUTION_THRESHOLD)
                 \/ binary_average_fake >= CAUTION_THRESHOLD
              THEN "caution"
              ELSE "none"
    ELSE "none"

AlertBand(chunk_count, median_fake, binary_average_fake, high_chunk_ratio) ==
    IF chunk_count > 0
    THEN IF /\ median_fake # None
            /\ median_fake[1] >= HIGH_THRESHOLD
            /\ binary_average_fake >= BINARY_HIGH_THRESHOLD
            /\ high_chunk_ratio >= HalfRatio
         THEN "high"
         ELSE IF \/ (median_fake # None /\ median_fake[1] >= CAUTION_THRESHOLD)
                 \/ binary_average_fake >= CAUTION_THRESHOLD
              THEN "caution"
              ELSE "none"
    ELSE "none"

\* The module-level code after the scoring loop.  error is TRUE when a
\* statement raises (the script then ends with nothing printed as the result).
Aggregation(fake_scores, real_scores, multi_scores) ==
    LET result_multi == NpAverage(multi_scores, 7)
        result_binary ==
            NpAverage([i \in 1..Min(Len(fake_scores), Len(real_scores)) |->
                           << fake_scores[i], real_scores[i] >>], 2)
        chunk_count == Len(fake_scores)
        median_fake == IF fake_scores # << >> THEN Some(NpMedian(fake_scores)) ELSE None
        max_fake == IF fake_scores # << >> THEN Some(NpMax(fake_scores)) ELSE None
        high_chunk_count == HighChunkCount(fake_scores)
        high_chunk_ratio == HighChunkRatio(high_chunk_count, chunk_count)
    IN  IF Truthy(result_binary) /\ ~Subscriptable(result_binary)
        THEN [error |-> TRUE, stats |-> None, aggregated |-> None]
        ELSE IF ~Subscriptable(result_multi) \/ ~Subscriptable(result_binary)
        THEN [error |-> TRUE, stats |-> None, aggregated |-> None]
        ELSE
        LET binary_average_fake ==
                IF Truthy(result_binary) THEN result_binary.items[1] ELSE 0
        IN  [error |-> FALSE,
             stats |-> Some([result_multi |-> result_multi.items,
                             result_binary |-> result_binary.items,
                             high_chunk_ratio |-> high_chunk_ratio]),
             aggregated |-> Some(
                [median_fake |-> median_fake,
                 max_fake |-> max_fake,
                 chunk_count |-> chunk_count,
                 fake_scores |-> fake_scores,
                 real_scores |-> real_scores,
                 high_chunk_count |-> high_chunk_count,
                 high_chunk_ratio |-> Round3(high_chunk_count, chunk_count),
                 alert_band |-> AlertBand(chunk_count, median_fake,
                                          binary_average_fake, high_chunk_ratio),
                 binary_average_fake |-> binary_average_fake])]

\* -------------------------------------------------------------- state
VARIABLES
    pc,                  \* "load", "score", "done", "crashed"
    raw,                 \* what librosa.load returns: the sample count and the rate
    y,                   \* the degraded signal, None before load_sample
    intervals,           \* what librosa.effects.split returned
    segments,            \* the result of detect_voiced_intervals
    chunks,              \* the result of load_sample
    k,                   \* the chunk the scoring loop is at (from 1)
    chunk_fake_scores,
    chunk_real_scores,
    chunk_multi_scores,
    calls,               \* history: for each call of the classifier, its chunk and outcome
    stats,               \* result_multi, result_binary and high_chunk_ratio, once computed
    aggregated           \* the record printed as AGGREGATED_RESULT, None before

vars == << pc, raw, y, intervals, segments, chunks, k, chunk_fake_scores,
           chunk_real_scores, chunk_multi_scores, calls, stats, aggregated >>

\* Sample counts of the inputs, at 8000 Hz.
RawLengths ==
    {1, 512, 1200, 1541, 1712}
        \cup {20000 * c + d : c \in 1..MaxSignalChunks, d \in {0, 171, 341}}

Inputs ==
    {[n |-> m, sr |-> TELEPHONY_SR] : m \in RawLengths}
        \cup {[n |-> 2 * m, sr |-> 2 * TELEPHONY_SR] : m \in RawLengths}

Init ==
    /\ pc = "load"
    /\ raw \in Inputs
    /\ y = None
    /\ intervals = << >>
    /\ segments = << >>
    /\ chunks = << >>
    /\ k = 1
    /\ chunk_fake_scores = << >>
    /\ chunk_real_scores = << >>
    /\ chunk_multi_scores = << >>
    /\ calls = << >>
    /\ stats = None
    /\ aggregated = None

\* chunks = load_sample(input_path)
LoadSample ==
    /\ pc = "load"
    /\ LET n == simulate_twilio_audio(raw.n, raw.sr)
           sig == Arr(0, n, 0, 0)
       IN  \E ivs \in SplitResults(n) :
               /\ y' = Some(sig)
               /\ intervals' = ivs
               /\ segments' = detect_voiced_intervals(sig, ivs)
               /\ chunks' = load_sample(sig, ivs)
    /\ pc' = "score"
    /\ UNCHANGED << raw, k, chunk_fake_scores, chunk_real_scores,
                    chunk_multi_scores, calls, stats, aggregated >>

\* Mutant: the multiclass output is put at the front of its list.
ScoreChunkMultiInFront ==
    /\ pc = "score"
    /\ k <= Len(chunks)
    /\ \E out \in ClassifierOutputs :
           /\ chunk_fake_scores' = Append(chunk_fake_scores, out.fake)
           /\ chunk_real_scores' = Append(chunk_real_scores, out.real)
           /\ chunk_multi_scores' = << out.multi >> \o chunk_multi_scores
           /\ calls' = Append(calls, [chunk |-> k, out |-> Some(out)])
    /\ k' = k + 1
    /\ UNCHANGED << pc, raw, y, intervals, segments, chunks, stats, aggregated >>

\* One iteration of the scoring loop: the classifier returns and its three
\* outputs are appended.
ScoreChunk ==
    /\ pc = "score"
    /\ k <= Len(chunks)
    /\ \E out \in ClassifierOutputs :
           /\ chunk_fake_scores' = Append(chunk_fake_scores, out.fake)
           /\ chunk_real_scores' = Append(chunk_real_scores, out.real)
           /\ chunk_multi_scores' = Append(chunk_multi_scores, out.multi)
           /\ calls' = Append(calls, [chunk |-> k, out |-> Some(out)])
    /\ k' = k + 1
    /\ UNCHANGED << pc, raw, y, intervals, segments, chunks, stats, aggregated >>

\* Mutant: the exception is caught and the loop goes on to the next chunk.
ClassifierRaisesCaught ==
    /\ pc = "score"
    /\ k <= Len(chunks)
    /\ calls' = Append(calls, [chunk |-> k, out |-> None])
    /\ k' = k + 1
    /\ UNCHANGED << pc, raw, y, intervals, segments, chunks, chunk_fake_scores,
                    chunk_real_scores, chunk_multi_scores, stats, aggregated >>

\* One iteration of the scoring loop: the classifier raises; nothing catches
\* the exception and the script ends.
ClassifierRaises ==
    /\ pc = "score"
    /\ k <= Len(chunks)
    /\ calls' = Append(calls, [chunk |-> k, out |-> None])
    /\ pc' = "crashed"
    /\ UNCHANGED << raw, y, intervals, segments, chunks, k, chunk_fake_scores,
                    chunk_real_scores, chunk_multi_scores, stats, aggregated >>

\* The statements after the loop, to the print of AGGREGATED_RESULT.
Aggregate ==
    /\ pc = "score"
    /\ k > Len(chunks)
    /\ LET r == Aggregation(chunk_fake_scores, chunk_real_scores, chunk_multi_scores)
       IN  /\ pc' = IF r.error THEN "crashed" ELSE "done"
           /\ stats' = r.stats
           /\ aggregated' = r.aggregated
    /\ UNCHANGED << raw, y, intervals, segments, chunks, k, chunk_fake_scores,
                    chunk_real_scores, chunk_multi_scores, calls >>

Next == LoadSample \/ ScoreChunk \/ ClassifierRaises \/ Aggregate

Spec == Init /\ [][Next]_vars

\* The aggregation on its own, as a function of the three score lists: the
\* state after a scoring loop that left the lists `scores`.
InitAgg ==
    /\ pc = "score"
    /\ raw = [n |-> 0, sr |-> TELEPHONY_SR]
    /\ y = None
    /\ intervals = << >>
    /\ segments = << >>
    /\ \E scores \in AggScoreLists :
           /\ chunks = [i \in 1..Len(scores) |-> Arr(0, 0, 0, CHUNK_SAMPLES)]
           /\ k = Len(scores) + 1
           /\ chunk_fake_scores = [i \in 1..Len(scores) |-> scores[i].fake]
           /\ chunk_real_scores = [i \in 1..Len(scores) |-> scores[i].real]
           /\ chunk_multi_scores = [i \in 1..Len(scores) |-> scores[i].multi]
           /\ calls = [i \in 1..Len(scores) |-> [chunk |-> i, out |-> Some(scores[i])]]
    /\ stats = None
    /\ aggregated = None

NextAgg == Aggregate

SpecAgg == InitAgg /\ [][NextAgg]_vars

\* ------------------------------------------------------------- claims
Loaded == pc # "load"
Signal == y[1]
IntervalLen(iv) == iv[2] - iv[1]
DataLen(x) == x.hi - x.lo

\* C9: detect_voiced_intervals returns exactly the detected intervals of at
\* least MIN_SEGMENT_SAMPLES samples, in their detected order, each as the
\* unmodified slice y[start:end]; an interval of exactly 3600 samples is kept.
C9_SegmentsAreLongIntervals ==
    Loaded =>
        LET keep == {i \in 1..Len(intervals) : IntervalLen(intervals[i]) >= 3600}
            nth(j) == CHOOSE i \in keep : Cardinality({h \in keep : h <= i}) = j
        IN  /\ Len(segments) = Cardinality(keep)
            /\ \A j \in 1..Len(segments) :
                   segments[j] = Arr(intervals[nth(j)][1], intervals[nth(j)][2], 0, 0)

\* An interval of exactly 3600 samples was kept and a shorter one discarded.
C9_Witness ==
    /\ Loaded
    /\ \E i \in 1..Len(intervals) : IntervalLen(intervals[i]) = 3600
    /\ \E i \in 1..Len(intervals) : IntervalLen(intervals[i]) < 3600
    /\ Len(segments) = 1
    /\ DataLen(segments[1]) = 3600

\* C2: every chunk holds exactly CHUNK_SAMPLES samples: first a run of samples
\* of its source (a voiced segment, or the whole signal on the fallback path)
\* in their order, starting a whole number of chunks into the source, then
\* zeros only; no zero stands before the samples.
C2_ChunksAreRightPadded ==
    Loaded =>
        \A c \in 1..Len(chunks) :
            LET x == chunks[c]
                d == DataLen(x)
                sources == IF segments = << >> THEN {Signal}
                           ELSE {segments[j] : j \in 1..Len(segments)}
            IN  /\ ALen(x) = 60000
                /\ \E src \in sources :
                       /\ src.lo <= x.lo /\ x.hi <= src.hi
                       /\ (x.lo - src.lo) % 60000 = 0
                /\ \A i \in {0, d - 1, d, 59999} :
                       IF 0 <= i /\ i < d THEN At(x, i) = Some(x.lo + i)
                       ELSE i >= 0 => At(x, i) = None

\* A chunk of a voiced segment was padded.
C2_Witness ==
    /\ Loaded
    /\ segments # << >>
    /\ \E c \in 1..Len(chunks) : DataLen(chunks[c]) < 60000 /\ chunks[c].padR > 0

RECURSIVE ChunksBefore(_)
\* The chunks the claim expects of the segments before segment j.
ChunksBefore(j) ==
    IF j = 1 THEN 0
    ELSE ChunksBefore(j - 1) + CeilDiv(DataLen(segments[j - 1]), 60000)

\* C3: a voiced interval of L samples gives ceil(L / CHUNK_SAMPLES) chunks, in
\* time order; the last one holds L mod CHUNK_SAMPLES samples of the interval,
\* or CHUNK_SAMPLES when L is a multiple; no chunk of padding alone follows.
C3_ChunkCountIsCeiling ==
    (Loaded /\ segments # << >>) =>
        /\ Len(chunks) = ChunksBefore(Len(segments) + 1)
        /\ \A j \in 1..Len(segments) :
               LET L == DataLen(segments[j])
                   cnt == CeilDiv(L, 60000)
                   base == ChunksBefore(j)
               IN  /\ \A m \in 1..cnt :
                          /\ chunks[base + m].lo = segments[j].lo + (m - 1) * 60000
                          /\ m < cnt => DataLen(chunks[base + m]) = 60000
                   /\ DataLen(chunks[base + cnt]) =
                          (IF L % 60000 = 0 THEN 60000 ELSE L % 60000)

\* An interval of exactly two chunks gave two chunks, the second one full.
C3_Witness ==
    /\ Loaded
    /\ Len(segments) = 1
    /\ DataLen(segments[1]) = 120000
    /\ Len(chunks) = 2
    /\ chunks[2].padR = 0

\* C4: load_sample never returns an empty list; with no voiced segment it
\* returns one chunk: the first CHUNK_SAMPLES samples of the whole signal,
\* zero-filled on the right when the signal is shorter.
C4_NeverEmpty ==
    Loaded =>
        /\ Len(chunks) >= 1
        /\ segments = << >> =>
               LET n == ALen(Signal)
                   keep == IF n > 60000 THEN 60000 ELSE n
               IN  chunks = << Arr(0, keep, 0, 60000 - keep) >>

\* Every detected interval was too short and the fallback chunk was padded.
C4_Witness ==
    /\ Loaded
    /\ intervals # << >>
    /\ segments = << >>
    /\ Len(chunks) = 1
    /\ chunks[1].padR > 0

LoopOver == pc \in {"score", "done"} /\ k > Len(chunks)
Result == aggregated[1]

\* C7: the classifier is called once per chunk, in the order of the chunk
\* list; after the loop the three score lists are as long as the chunk list
\* and hold at index i what the classifier returned for chunk i; chunk_count,
\* fake_scores and real_scores of the record have that length.
C7_OneScorePerChunk ==
    /\ Len(calls) <= Len(chunks)
    /\ \A i \in 1..Len(calls) : calls[i].chunk = i
    /\ LoopOver =>
           /\ Len(calls) = Len(chunks)
           /\ Len(chunk_fake_scores) = Len(chunks)
           /\ Len(chunk_real_scores) = Len(chunks)
           /\ Len(chunk_multi_scores) = Len(chunks)
           /\ \A i \in 1..Len(chunks) :
                  /\ calls[i].out # None
                  /\ chunk_fake_scores[i] = calls[i].out[1].fake
                  /\ chunk_real_scores[i] = calls[i].out[1].real
                  /\ chunk_multi_scores[i] = calls[i].out[1].multi
    /\ aggregated # None =>
           /\ Result.chunk_count = Len(chunks)
           /\ Len(Result.fake_scores) = Len(chunks)
           /\ Len(Result.real_scores) = Len(chunks)
           /\ \A i \in 1..Len(chunks) :
                  /\ Result.fake_scores[i] = calls[i].out[1].fake
                  /\ Result.real_scores[i] = calls[i].out[1].real

\* A result over several chunks whose scores differ.
C7_Witness ==
    /\ pc = "done"
    /\ Len(chunks) >= 3
    /\ calls[1].out # calls[2].out
    /\ calls[2].out = calls[3].out

\* C8: once the classifier has failed on a chunk the run is over: no chunk is
\* tried again, no further statement runs, and no result exists; a result is
\* only ever computed from score lists that cover every chunk.
C8_FailureAbortsRun ==
    /\ (\E i \in 1..Len(calls) : calls[i].out = None) =>
           /\ pc = "crashed"
           /\ aggregated = None
           /\ stats = None
           /\ ~ENABLED Next
    /\ \A i, j \in 1..Len(calls) : calls[i].chunk = calls[j].chunk => i = j
    /\ (aggregated # None \/ stats # None) =>
           /\ Len(chunk_fake_scores) = Len(chunks)
           /\ \A i \in 1..Len(calls) : calls[i].out # None

\* The classifier failed after it had scored a chunk.
C8_Witness ==
    /\ pc = "crashed"
    /\ Len(chunk_fake_scores) >= 1
    /\ Len(chunk_fake_scores) < Len(chunks)
    /\ calls[Len(calls)].out = None

\* C1: over a list of scores that is not empty the band is "high" exactly when
\* median_fake >= 0.95 and binary_average_fake >= 0.95 and high_chunk_ratio
\* >= 0.5; otherwise "caution" exactly when median_fake >= 0.85 or
\* binary_average_fake >= 0.85; otherwise "none".  The comparisons include
\* the thresholds themselves.
C1_AlertBandRule ==
    (aggregated # None /\ chunk_fake_scores # << >>) =>
        LET m == Result.median_fake[1]
            b == Result.binary_average_fake
            r == stats[1].high_chunk_ratio
            high == m >= 61 /\ b >= 61 /\ 2 * r >= One
            caution == m >= 54 \/ b >= 54
        IN  /\ Result.alert_band = "high" <=> high
            /\ Result.alert_band = "caution" <=> (~high /\ caution)
            /\ Result.alert_band = "none" <=> (~high /\ ~caution)

\* Every statistic of a "high" result is exactly at its threshold.
C1_Witness ==
    /\ aggregated # None
    /\ Len(chunk_fake_scores) = 2
    /\ Result.median_fake = Some(61)
    /\ Result.binary_average_fake = 61
    /\ 2 * stats[1].high_chunk_ratio = One
    /\ Result.alert_band = "high"

\* C10: over a list of scores that is not empty, median_fake >= 0.95 implies
\* high_chunk_ratio >= 0.5, so the band is "high" exactly when median_fake >=
\* 0.95 and binary_average_fake >= 0.95.
C10_MedianImpliesRatio ==
    (aggregated # None /\ chunk_fake_scores # << >>) =>
        LET m == Result.median_fake[1]
            b == Result.binary_average_fake
        IN  /\ m >= 61 => 2 * stats[1].high_chunk_ratio >= One
            /\ m >= 61 => 2 * Result.high_chunk_count >= Result.chunk_count
            /\ Result.alert_band = "high" <=> (m >= 61 /\ b >= 61)

\* The median is at the threshold and only half of the scores reach it.
C10_Witness ==
    /\ aggregated # None
    /\ Len(chunk_fake_scores) = 2
    /\ Result.median_fake[1] >= 61
    /\ Result.high_chunk_count = 1
    /\ Result.alert_band = "high"

Permute(xs, p) == [i \in 1..Len(xs) |-> xs[p[i]]]
Perms(n) == {p \in [1..n -> 1..n] : \A i, j \in 1..n : p[i] = p[j] => i = j}

\* C6: the same permutation applied to the fake, real and multiclass lists
\* leaves median_fake, max_fake, binary_average_fake, the multiclass average,
\* high_chunk_count, high_chunk_ratio and alert_band unchanged.
C6_PermutationInvariant ==
    aggregated # None =>
        \A p \in Perms(Len(chunk_fake_scores)) :
            LET other == Aggregation(Permute(chunk_fake_scores, p),
                                     Permute(chunk_real_scores, p),
                                     Permute(chunk_multi_scores, p))
                o == other.aggregated[1]
            IN  /\ ~other.error
                /\ o.median_fake = Result.median_fake
                /\ o.max_fake = Result.max_fake
                /\ o.binary_average_fake = Result.binary_average_fake
                /\ other.stats[1].result_multi = stats[1].result_multi
                /\ o.high_chunk_count = Result.high_chunk_count
                /\ o.high_chunk_ratio = Result.high_chunk_ratio
                /\ other.stats[1].high_chunk_ratio = stats[1].high_chunk_ratio
                /\ o.alert_band = Result.alert_band

====
